---- MODULE Spec2Model ----
(***************************************************************************)
(* The LiveSession component (components/LiveSession.tsx, kept here as     *)
(* src/unnamed/part_000 lines 315-551): one React component instance, its  *)
(* refs and state, every startSession() invocation with its closure        *)
(* (stream, sessionPromise), the callbacks the transport, the audio        *)
(* device, the interval timer and the decoder deliver, and stopSession().  *)
(*                                                                         *)
(* Every action is one JavaScript task: a handler runs to completion, an   *)
(* `await` ends the task and its continuation is a later action.  A        *)
(* startSession() invocation is identified by its number k; the objects    *)
(* it creates (the two AudioContexts, the MediaStream, the transport, the  *)
(* interval) carry the same number.                                        *)
(***************************************************************************)
EXTENDS Integers, Sequences, FiniteSets, TLC

\* ------------------------------------------------------------- bounds
MaxStarts == 2      \* startSession() invocations explored
MaxMsgs == 2        \* inbound messages explored
MaxTime == 2        \* ctx.currentTime values explored, in buffer-frame units
MaxPayload == 2     \* bytes of an inbound audio payload
MaxWindows == 2     \* onaudioprocess events explored
MaxFrames == 1      \* interval ticks explored
NumBars == 2        \* bars of visualizerData explored (the source keeps 10)
MaxJitter == 1      \* values of Math.random() * 20 explored
MaxSends == 2       \* accepted handleSend() calls explored
MaxPolls == 1       \* getVideosOperation polls explored per video

Sessions == 1..MaxStarts

\* ---------------------------------------------------------- constants
NULL == 0
NoError == "null"
ConnectionError == "Connection error."
MediaError == "Failed to access media devices or connect."
InitialBar == 10
VolumeGain == 500

\* Texts a transport error event can carry.
ErrorTexts == {"socket closed", "quota exceeded"}

\* Capture windows (e.inputBuffer.getChannelData(0)): samples in halves,
\* so 2 is 1.0 and 3 is 1.5.  A stopped track delivers silence.
Silence == <<0, 0>>
Windows == {Silence, <<2, -2>>, <<3, -1>>}

VARIABLES
    mounted,            \* the component instance is mounted (refs to DOM nodes are set)
    isConnected,        \* useState(false)
    error,              \* useState<string | null>(null)
    visualizerData,     \* useState(new Array(10).fill(10))
    streamRef,          \* the MediaStream of invocation k, or NULL
    inputContextRef,    \* the input AudioContext of invocation k, or NULL
    outputContextRef,   \* the output AudioContext of invocation k, or NULL
    nextStartTimeRef,
    sourcesRef,         \* set of AudioBufferSourceNodes [id, at, dur, ctx]
    sessionRef,         \* the sessionPromise of invocation k, or NULL
    frameIntervalRef,   \* the interval id set by invocation k, or NULL
    pc,                 \* position of each startSession() invocation
    transport,          \* state of the connection each invocation opened
    resolved,           \* sessionPromise of k is resolved
    closeQueued,        \* a then(s => s.close()) waits on the pending sessionPromise
    closeCalls,         \* session.close() calls per invocation
    trackStops,         \* track.stop() calls on the stream of k
    inCloseCalls,       \* close() calls on the input context of k
    outCloseCalls,      \* close() calls on the output context of k
    intervalActive,     \* the interval of k still fires
    clearCalls,         \* clearInterval calls on the interval of k
    procCtx,            \* context the ScriptProcessor of k is attached to, or NULL
    currentTime,        \* currentTime of the context outputContextRef refers to
    pending,            \* onmessage invocations suspended at await decodeAudioData
    nMsgs,              \* inbound messages delivered so far
    stoppedSources,     \* ids of the sources whose stop() has been called
    lastStarted,        \* the latest source.start() call
    lastDone,           \* the latest onmessage invocation that ran to its end
    toBlobPending,      \* canvas.toBlob callbacks in flight per invocation
    readerPending,      \* FileReader loads in flight per invocation
    nFrames,            \* interval ticks so far
    sent,               \* session.sendRealtimeInput calls per invocation, in order
    lastWindow,         \* the latest onaudioprocess event
    nWindows,           \* onaudioprocess events so far
    vizUpdates,         \* applied setVisualizerData updates
    stopped,            \* stopSession() has been called since invocation k started
    ended,              \* onclose or onerror has run for invocation k
    lastTransportError, \* the latest error the transport reported
    chatMounted,        \* the ChatInterface instance is mounted
    mode,               \* the mode prop of ChatInterface
    messages,           \* useState<Message[]>: [role, text] in order
    inputText,          \* useState('')
    files,              \* length of useState([]): handleFileUpload keeps one file
    isLoading,          \* useState(false)
    sendPc,             \* the await the handleSend() in flight is suspended at
    nSends,             \* accepted handleSend() calls so far
    issued,             \* generation requests issued so far
    polls,              \* getVideosOperation calls of the video in progress
    lastThrown          \* the latest error thrown inside handleSend's try block

liveVars == <<mounted, isConnected, error, visualizerData, streamRef, inputContextRef,
          outputContextRef, nextStartTimeRef, sourcesRef, sessionRef, frameIntervalRef,
          pc, transport, resolved, closeQueued, closeCalls, trackStops, inCloseCalls,
          outCloseCalls, intervalActive, clearCalls, procCtx, currentTime, pending,
          nMsgs, stoppedSources, lastStarted, lastDone, toBlobPending, readerPending,
          nFrames, sent, lastWindow, nWindows, vizUpdates, stopped, ended,
          lastTransportError>>

chatVars == <<chatMounted, mode, messages, inputText, files, isLoading, sendPc, nSends,
              issued, polls, lastThrown>>

vars == <<liveVars, chatVars>>

uiVars == <<mounted, isConnected, error>>
refVars == <<streamRef, inputContextRef, outputContextRef, sessionRef, frameIntervalRef>>
sessionVars == <<pc, transport, resolved, closeQueued>>
releaseVars == <<closeCalls, trackStops, inCloseCalls, outCloseCalls, intervalActive,
                 clearCalls>>
playVars == <<nextStartTimeRef, sourcesRef, pending, nMsgs, stoppedSources, lastStarted,
              lastDone>>
videoVars == <<toBlobPending, readerPending, nFrames>>
captureVars == <<visualizerData, procCtx, lastWindow, nWindows, vizUpdates>>
historyVars == <<stopped, ended, lastTransportError>>

\* ------------------------------------------------------------ helpers
Max(a, b) == IF a >= b THEN a ELSE b
Abs(x) == IF x < 0 THEN -x ELSE x

RECURSIVE SumAbs(_)
SumAbs(w) == IF w = <<>> THEN 0 ELSE Abs(Head(w)) + SumAbs(Tail(w))

\* A state setter of a mounted component applies the update; React drops the
\* update of an unmounted one.
SetState(cur, new) == IF mounted THEN new ELSE cur

NoStart == [id |-> 0, at |-> 0, dur |-> 0, now |-> 0, prevId |-> 0,
            prevEnd |-> 0, afterStop |-> FALSE, cut |-> FALSE]
NoDone == [id |-> 0, audio |-> FALSE, interrupted |-> FALSE]
NoWindow == [n |-> 0, s |-> 0, data |-> Silence]
NoTransportError == ""

\* ChatInterface (src/unnamed/part_000 lines 1-314): what the user can type,
\* what a request can answer and the messages a rejection can carry.
ChatModes == {"CHAT", "IMAGE_GEN", "VIDEO_GEN"}
Texts == {"", " ", "hi", "edit"}
Replies == {"", "ok"}
ErrMessages == {"", "quota exceeded"}
Greeting == [role |-> "model",
             text |-> "Hello! I am Nano-Banana. How can I assist you today?"]
NoThrown == [n |-> 0, message |-> ""]

Init ==
    /\ mounted = TRUE
    /\ isConnected = FALSE
    /\ error = NoError
    /\ visualizerData = [i \in 1..NumBars |-> InitialBar]
    /\ streamRef = NULL
    /\ inputContextRef = NULL
    /\ outputContextRef = NULL
    /\ nextStartTimeRef = 0
    /\ sourcesRef = {}
    /\ sessionRef = NULL
    /\ frameIntervalRef = NULL
    /\ pc = [k \in Sessions |-> "none"]
    /\ transport = [k \in Sessions |-> "none"]
    /\ resolved = [k \in Sessions |-> FALSE]
    /\ closeQueued = [k \in Sessions |-> FALSE]
    /\ closeCalls = [k \in Sessions |-> 0]
    /\ trackStops = [k \in Sessions |-> 0]
    /\ inCloseCalls = [k \in Sessions |-> 0]
    /\ outCloseCalls = [k \in Sessions |-> 0]
    /\ intervalActive = [k \in Sessions |-> FALSE]
    /\ clearCalls = [k \in Sessions |-> 0]
    /\ procCtx = [k \in Sessions |-> NULL]
    /\ currentTime = 0
    /\ pending = {}
    /\ nMsgs = 0
    /\ stoppedSources = {}
    /\ lastStarted = NoStart
    /\ lastDone = NoDone
    /\ toBlobPending = [k \in Sessions |-> 0]
    /\ readerPending = [k \in Sessions |-> 0]
    /\ nFrames = 0
    /\ sent = [k \in Sessions |-> <<>>]
    /\ lastWindow = NoWindow
    /\ nWindows = 0
    /\ vizUpdates = 0
    /\ stopped = [k \in Sessions |-> FALSE]
    /\ ended = [k \in Sessions |-> FALSE]
    /\ lastTransportError = NoTransportError
    /\ chatMounted = TRUE
    /\ mode = "CHAT"
    /\ messages = <<Greeting>>
    /\ inputText = ""
    /\ files = 0
    /\ isLoading = FALSE
    /\ sendPc = "idle"
    /\ nSends = 0
    /\ issued = 0
    /\ polls = 0
    /\ lastThrown = NoThrown

\* ------------------------------------------------------- startSession
\* Lines 339-350: the "Start Conversation" button is rendered while
\* !isConnected; the invocation runs up to await getUserMedia.
startSession(k) ==
    /\ mounted
    /\ ~isConnected
    /\ pc[k] = "none"
    /\ \A j \in Sessions : j < k => pc[j] # "none"
    /\ error' = NoError
    /\ inputContextRef' = k
    /\ outputContextRef' = k
    /\ nextStartTimeRef' = 0
    /\ currentTime' = 0
    /\ pc' = [pc EXCEPT ![k] = "gum"]
    /\ lastStarted' = [lastStarted EXCEPT !.cut = TRUE]
    /\ UNCHANGED <<mounted, isConnected, streamRef, sessionRef, frameIntervalRef,
                   transport, resolved, closeQueued, releaseVars, sourcesRef, pending,
                   nMsgs, stoppedSources, lastDone, videoVars, captureVars, sent,
                   historyVars>>
    /\ UNCHANGED chatVars

\* Lines 351-438: getUserMedia resolved; the stream is kept, the preview is
\* set up and ai.live.connect() is called.
getUserMediaResolved(k) ==
    /\ pc[k] = "gum"
    /\ streamRef' = k
    /\ transport' = [transport EXCEPT ![k] = "connecting"]
    /\ sessionRef' = k
    /\ pc' = [pc EXCEPT ![k] = "connected"]
    /\ UNCHANGED <<uiVars, inputContextRef, outputContextRef, frameIntervalRef, resolved,
                   closeQueued, releaseVars, playVars, currentTime, videoVars,
                   captureVars, sent, historyVars>>
    /\ UNCHANGED chatVars

\* Lines 440-443: getUserMedia rejected; the catch block reports it.
getUserMediaRejected(k) ==
    /\ pc[k] = "gum"
    /\ error' = SetState(error, MediaError)
    /\ pc' = [pc EXCEPT ![k] = "failed"]
    /\ UNCHANGED <<mounted, isConnected, refVars, transport, resolved, closeQueued,
                   releaseVars, playVars, currentTime, videoVars, captureVars, sent,
                   historyVars>>
    /\ UNCHANGED chatVars

\* --------------------------------------------------------- stopSession
\* Lines 476-489.  The then() on a resolved sessionPromise runs s.close() in
\* the microtasks of the same task; on a pending one it waits.  close() on an
\* open transport starts the closing handshake.
stopSessionBody ==
    /\ IF sessionRef # NULL /\ resolved[sessionRef]
         THEN /\ closeCalls' = [closeCalls EXCEPT ![sessionRef] = @ + 1]
              /\ transport' = [transport EXCEPT ![sessionRef] =
                                  IF @ = "open" THEN "closing" ELSE @]
              /\ UNCHANGED closeQueued
         ELSE /\ closeQueued' = IF sessionRef # NULL
                                  THEN [closeQueued EXCEPT ![sessionRef] = TRUE]
                                  ELSE closeQueued
              /\ UNCHANGED <<closeCalls, transport>>
    /\ trackStops' = IF streamRef # NULL
                       THEN [trackStops EXCEPT ![streamRef] = @ + 1] ELSE trackStops
    /\ inCloseCalls' = IF inputContextRef # NULL
                         THEN [inCloseCalls EXCEPT ![inputContextRef] = @ + 1]
                         ELSE inCloseCalls
    /\ outCloseCalls' = IF outputContextRef # NULL
                          THEN [outCloseCalls EXCEPT ![outputContextRef] = @ + 1]
                          ELSE outCloseCalls
    /\ IF frameIntervalRef # NULL
         THEN /\ clearCalls' = [clearCalls EXCEPT ![frameIntervalRef] = @ + 1]
              /\ intervalActive' = [intervalActive EXCEPT ![frameIntervalRef] = FALSE]
         ELSE UNCHANGED <<clearCalls, intervalActive>>
    /\ isConnected' = SetState(isConnected, FALSE)
    /\ sessionRef' = NULL
    /\ stopped' = [k \in Sessions |-> stopped[k] \/ pc[k] # "none"]
    /\ UNCHANGED <<error, streamRef, inputContextRef, outputContextRef, frameIntervalRef,
                   pc, resolved, playVars, currentTime, videoVars, captureVars, sent,
                   ended, lastTransportError>>
    /\ UNCHANGED chatVars

\* Lines 539-546: the "End Call" button, rendered while isConnected.
stopSession ==
    /\ mounted
    /\ isConnected
    /\ stopSessionBody
    /\ UNCHANGED mounted

\* Lines 491-494 (and App.tsx 28-32): leaving the LIVE mode unmounts the
\* component; the effect cleanup calls stopSession() and React clears the
\* refs to the DOM nodes.
unmount ==
    /\ mounted
    /\ stopSessionBody
    /\ mounted' = FALSE

\* ---------------------------------------------------- transport signals
\* Lines 446-452: startVideoStreaming installs the interval unless the video
\* or the canvas node is gone.
startVideoStreaming(k) ==
    IF mounted
      THEN /\ frameIntervalRef' = k
           /\ intervalActive' = [intervalActive EXCEPT ![k] = TRUE]
      ELSE UNCHANGED <<frameIntervalRef, intervalActive>>

\* Lines 363-386: the open signal.  The sessionPromise resolves in the
\* microtasks after the callback returns, and a queued s.close() runs then.
\* createMediaStreamSource on a closed AudioContext throws in some browsers
\* and not in others: when it throws the callback ends there and the
\* promise stays pending.
onopen(k) ==
    /\ transport[k] = "connecting"
    /\ isConnected' = SetState(isConnected, TRUE)
    /\ \E throws \in (IF inCloseCalls[inputContextRef] > 0 THEN BOOLEAN ELSE {FALSE}) :
         IF throws
           THEN /\ transport' = [transport EXCEPT ![k] = "open"]
                /\ UNCHANGED <<procCtx, frameIntervalRef, intervalActive, resolved,
                               closeCalls>>
           ELSE /\ procCtx' = [procCtx EXCEPT ![k] = inputContextRef]
                /\ startVideoStreaming(k)
                /\ resolved' = [resolved EXCEPT ![k] = TRUE]
                /\ closeCalls' = [closeCalls EXCEPT ![k] = IF closeQueued[k] THEN @ + 1 ELSE @]
                /\ transport' = [transport EXCEPT ![k] =
                                    IF closeQueued[k] THEN "closing" ELSE "open"]
    /\ UNCHANGED <<mounted, error, streamRef, inputContextRef, outputContextRef, sessionRef,
                   pc, closeQueued, trackStops, inCloseCalls, outCloseCalls, clearCalls,
                   playVars, currentTime, videoVars, visualizerData, lastWindow, nWindows,
                   vizUpdates, sent, historyVars>>
    /\ UNCHANGED chatVars

\* Lines 420-422: the close signal, after a close() of either side or after
\* an error.
onclose(k) ==
    /\ transport[k] \in {"open", "closing", "failing"}
    /\ transport' = [transport EXCEPT ![k] = "closed"]
    /\ isConnected' = SetState(isConnected, FALSE)
    /\ ended' = [ended EXCEPT ![k] = TRUE]
    /\ UNCHANGED <<mounted, error, refVars, pc, resolved, closeQueued, releaseVars,
                   playVars, currentTime, videoVars, captureVars, sent, stopped,
                   lastTransportError>>
    /\ UNCHANGED chatVars

\* Line 425: the text shown for a transport error that reported e.
ErrorShownAsReported(e) == e
ErrorShown(e) == ConnectionError

TransportAfterErrorReconnects == "connecting"

\* Lines 423-427: the handler only reports the error; the failed connection
\* is left to close.
TransportAfterError == "failing"

\* Lines 423-427: the error signal; the connection then closes.
onerror(k, e) ==
    /\ transport[k] \in {"connecting", "open", "closing"}
    /\ transport' = [transport EXCEPT ![k] = TransportAfterError]
    /\ error' = SetState(error, ErrorShown(e))
    /\ isConnected' = SetState(isConnected, FALSE)
    /\ ended' = [ended EXCEPT ![k] = TRUE]
    /\ lastTransportError' = e
    /\ UNCHANGED <<mounted, refVars, pc, resolved, closeQueued, releaseVars, playVars,
                   currentTime, videoVars, captureVars, sent, stopped>>
    /\ UNCHANGED chatVars

\* ------------------------------------------------------------ playback
\* services/audioUtils decode + decodeAudioData: the payload is 16-bit PCM,
\* so a payload of an odd number of bytes is malformed; a well-formed one
\* decodes to one frame per two bytes.  The payload is given by its length.
Malformed(len) == len % 2 = 1
Duration(len) == len \div 2

SourceIds(S) == {src.id : src \in S}

InterruptedKeepsCursor(S) ==
    /\ stoppedSources' = stoppedSources \cup SourceIds(S)
    /\ sourcesRef' = {}
    /\ nextStartTimeRef' = nextStartTimeRef

\* Lines 413-418, applied to the source set S.
Interrupted(S) ==
    /\ stoppedSources' = stoppedSources \cup SourceIds(S)
    /\ sourcesRef' = {}
    /\ nextStartTimeRef' = 0

\* Lines 387-394 and 413-418: an inbound message of invocation k, up to the
\* await of the decode (or to the end, when there is no audio to decode).
\* A throwing decode rejects the handler's promise: nothing after line 394
\* runs for that message.
onmessage(k, len, interrupted) ==
    /\ transport[k] = "open"
    /\ nMsgs < MaxMsgs
    /\ nMsgs' = nMsgs + 1
    /\ IF len > 0 /\ outputContextRef # NULL
         THEN /\ nextStartTimeRef' = Max(nextStartTimeRef, currentTime)
              /\ pending' = IF Malformed(len) THEN pending
                            ELSE pending \cup {[id |-> nMsgs + 1, s |-> k,
                                                ctx |-> outputContextRef,
                                                dur |-> Duration(len),
                                                interrupted |-> interrupted]}
              /\ UNCHANGED <<sourcesRef, stoppedSources, lastStarted, lastDone>>
         ELSE /\ IF interrupted
                   THEN /\ Interrupted(sourcesRef)
                        /\ lastStarted' = [lastStarted EXCEPT !.cut = TRUE]
                   ELSE UNCHANGED <<stoppedSources, sourcesRef, nextStartTimeRef,
                                    lastStarted>>
              /\ lastDone' = [id |-> nMsgs + 1, audio |-> FALSE,
                              interrupted |-> interrupted]
              /\ UNCHANGED pending
    /\ UNCHANGED <<uiVars, refVars, sessionVars, releaseVars, currentTime, videoVars,
                   captureVars, sent, historyVars>>
    /\ UNCHANGED chatVars

\* The start time source.start() is given (line 408).
StartTime == nextStartTimeRef

\* Lines 401-418: the decode of message p resolved; the buffer is started at
\* nextStartTimeRef, the cursor advances, the source joins the set, and the
\* interruption flag of the same message is handled.  The clock of a context
\* that outputContextRef no longer refers to is not followed (read as 0).
decodeResolved(p) ==
    /\ p \in pending
    /\ pending' = pending \ {p}
    /\ LET src == [id |-> p.id, at |-> StartTime, dur |-> p.dur, ctx |-> p.ctx]
       IN  /\ lastStarted' =
                 [id |-> p.id, at |-> src.at, dur |-> p.dur,
                  now |-> IF p.ctx = outputContextRef THEN currentTime ELSE 0,
                  prevId |-> lastStarted.id,
                  prevEnd |-> IF lastStarted.id = 0 \/ lastStarted.cut THEN 0
                              ELSE lastStarted.at + lastStarted.dur,
                  afterStop |-> stopped[p.s],
                  cut |-> p.interrupted]
           /\ IF p.interrupted
                THEN Interrupted(sourcesRef \cup {src})
                ELSE /\ nextStartTimeRef' = nextStartTimeRef + p.dur
                     /\ sourcesRef' = sourcesRef \cup {src}
                     /\ UNCHANGED stoppedSources
    /\ lastDone' = [id |-> p.id, audio |-> TRUE, interrupted |-> p.interrupted]
    /\ UNCHANGED <<uiVars, refVars, sessionVars, releaseVars, currentTime, nMsgs,
                   videoVars, captureVars, sent, historyVars>>
    /\ UNCHANGED chatVars

\* Lines 404-406: a source played to its end; its 'ended' listener removes
\* it from the set.  A closed context plays nothing.
onended(src) ==
    /\ src \in sourcesRef
    /\ IF src.ctx = outputContextRef
         THEN currentTime >= src.at + src.dur
         ELSE outCloseCalls[src.ctx] = 0
    /\ sourcesRef' = sourcesRef \ {src}
    /\ UNCHANGED <<uiVars, refVars, sessionVars, releaseVars, currentTime,
                   nextStartTimeRef, pending, nMsgs, stoppedSources, lastStarted,
                   lastDone, videoVars, captureVars, sent, historyVars>>
    /\ UNCHANGED chatVars

\* The output device clock (ctx.currentTime, line 392) advances while the
\* context is not closed.
clockAdvances ==
    /\ outputContextRef # NULL
    /\ outCloseCalls[outputContextRef] = 0
    /\ currentTime < MaxTime
    /\ currentTime' = currentTime + 1
    /\ UNCHANGED <<uiVars, refVars, sessionVars, releaseVars, playVars, videoVars,
                   captureVars, sent, historyVars>>
    /\ UNCHANGED chatVars

\* ------------------------------------------------------------- capture
Clamp16(x) == IF x > 32767 THEN 32767 ELSE IF x < -32768 THEN -32768 ELSE x

\* services/audioUtils createBlob: every sample is scaled to a 16-bit signed
\* integer and clamped to the representable extremes; the chunk carries the
\* 16 kHz tag.  Samples are in halves, so the scale factor 32768 is 16384.
createBlob(w) ==
    [data |-> [i \in 1..Len(w) |-> Clamp16(w[i] * 16384)],
     mimeType |-> "audio/pcm;rate=16000"]

\* Line 377 times the gain of line 378: volume * 500, for samples in halves.
Amplitude(w) == (SumAbs(w) * (VolumeGain \div 2)) \div Len(w)

sendRealtimeInputFirst(k, kind, media) ==
    sent' = [sent EXCEPT ![k] = <<[kind |-> kind, media |-> media,
                                   afterStop |-> stopped[k]]>> \o @]

\* Lines 374 and 465-469: sessionPromise.then(session =>
\* session.sendRealtimeInput(..)) on the resolved promise of invocation k.
sendRealtimeInput(k, kind, media) ==
    sent' = [sent EXCEPT ![k] = Append(@, [kind |-> kind, media |-> media,
                                           afterStop |-> stopped[k]])]

CaptureRunningFromConnect(k) ==
    \/ transport[k] = "connecting"
    \/ procCtx[k] # NULL /\ inCloseCalls[procCtx[k]] = 0

\* Lines 368-382: the ScriptProcessor of invocation k exists once onopen has
\* connected it, and fires while its context runs.
CaptureRunning(k) == procCtx[k] # NULL /\ inCloseCalls[procCtx[k]] = 0

\* Lines 371-379: the ScriptProcessor of invocation k delivers a window while
\* its context runs; the window is encoded and sent, and every bar of the
\* visualizer is redrawn from the window's volume plus its own random part.
onaudioprocess(k, w) ==
    /\ CaptureRunning(k)
    /\ nWindows < MaxWindows
    /\ trackStops[k] > 0 => w = Silence
    /\ sendRealtimeInput(k, "audio", createBlob(w))
    /\ \E random \in [1..NumBars -> 0..MaxJitter] :
         visualizerData' =
             SetState(visualizerData, [i \in 1..NumBars |-> random[i] + Amplitude(w)])
    /\ vizUpdates' = SetState(vizUpdates, vizUpdates + 1)
    /\ nWindows' = nWindows + 1
    /\ lastWindow' = [n |-> nWindows + 1, s |-> k, data |-> w]
    /\ UNCHANGED <<uiVars, refVars, sessionVars, releaseVars, procCtx, playVars,
                   currentTime, videoVars, historyVars>>
    /\ UNCHANGED chatVars

\* Lines 452-458: a tick of the interval of invocation k.  With the canvas
\* node gone the callback throws; otherwise the frame is drawn and toBlob is
\* asked for it.
intervalFires(k) ==
    /\ intervalActive[k]
    /\ nFrames < MaxFrames
    /\ nFrames' = nFrames + 1
    /\ toBlobPending' = IF mounted THEN [toBlobPending EXCEPT ![k] = @ + 1]
                        ELSE toBlobPending
    /\ UNCHANGED <<uiVars, refVars, sessionVars, releaseVars, playVars, currentTime,
                   readerPending, captureVars, sent, historyVars>>
    /\ UNCHANGED chatVars

\* Lines 458-471: the toBlob callback; without a blob it returns, with one it
\* starts the FileReader.
toBlobCallback(k, hasBlob) ==
    /\ toBlobPending[k] > 0
    /\ toBlobPending' = [toBlobPending EXCEPT ![k] = @ - 1]
    /\ readerPending' = IF hasBlob THEN [readerPending EXCEPT ![k] = @ + 1]
                        ELSE readerPending
    /\ UNCHANGED <<uiVars, refVars, sessionVars, releaseVars, playVars, currentTime,
                   nFrames, captureVars, sent, historyVars>>
    /\ UNCHANGED chatVars

\* Lines 463-470: the reader finished; the frame is sent.
onloadend(k) ==
    /\ readerPending[k] > 0
    /\ readerPending' = [readerPending EXCEPT ![k] = @ - 1]
    /\ sendRealtimeInput(k, "video", [data |-> "jpeg", mimeType |-> "image/jpeg"])
    /\ UNCHANGED <<uiVars, refVars, sessionVars, releaseVars, playVars, currentTime,
                   toBlobPending, nFrames, captureVars, historyVars>>
    /\ UNCHANGED chatVars

\* ------------------------------------------------------- ChatInterface
\* String.prototype.trim on the texts explored.
Trim(t) == IF t = " " THEN "" ELSE t

\* A state setter of ChatInterface: dropped once the instance is unmounted.
SetChat(cur, new) == IF chatMounted THEN new ELSE cur

\* Line 292: the user edits the text box.
setInputText(t) ==
    /\ chatMounted
    /\ t # inputText
    /\ inputText' = t
    /\ UNCHANGED <<liveVars, chatMounted, mode, messages, files, isLoading, sendPc, nSends,
                   issued, polls, lastThrown>>

\* Lines 124-138: the file the user picked has been read; files holds it alone.
handleFileUpload ==
    /\ chatMounted
    /\ files = 0
    /\ files' = 1
    /\ UNCHANGED <<liveVars, chatMounted, mode, messages, inputText, isLoading, sendPc,
                   nSends, issued, polls, lastThrown>>

\* App.tsx line 31 and Sidebar.tsx line 42: another of the three chat modes
\* is chosen; the same instance gets the new prop.
setMode(m) ==
    /\ chatMounted
    /\ m # mode
    /\ mode' = m
    /\ UNCHANGED <<liveVars, chatMounted, messages, inputText, files, isLoading, sendPc,
                   nSends, issued, polls, lastThrown>>

\* App.tsx lines 28-32: the LIVE mode is chosen and ChatInterface unmounts.
chatUnmount ==
    /\ chatMounted
    /\ chatMounted' = FALSE
    /\ UNCHANGED <<liveVars, mode, messages, inputText, files, isLoading, sendPc, nSends,
                   issued, polls, lastThrown>>

\* Line 116: the text of the message shown for an error with message m.
ErrorMessageGeneric(m) == "Error: Something went wrong."
ErrorMessage(m) == "Error: " \o (IF m = "" THEN "Something went wrong." ELSE m)

\* Lines 112-121: the catch block appends one model message, then finally.
Throw(m) ==
    /\ messages' = SetChat(messages, Append(messages, [role |-> "model",
                                                       text |-> ErrorMessage(m)]))
    /\ isLoading' = SetChat(isLoading, FALSE)
    /\ sendPc' = "idle"
    /\ lastThrown' = [n |-> nSends, message |-> m]

\* Lines 102-110 and 119-121: the try block ends with the model's message.
Succeed(responseText) ==
    /\ messages' = SetChat(messages, Append(messages, [role |-> "model",
                                                       text |-> responseText]))
    /\ isLoading' = SetChat(isLoading, FALSE)
    /\ sendPc' = "idle"
    /\ UNCHANGED lastThrown

\* Lines 45-100 up to the first await.  aistudio: window.aistudio offers
\* hasSelectedApiKey (geminiService.ts line 130).
handleSend(aistudio) ==
    /\ chatMounted
    /\ ~((Trim(inputText) = "" /\ files = 0) \/ isLoading)
    /\ nSends < MaxSends
    /\ nSends' = nSends + 1
    /\ messages' = Append(messages, [role |-> "user", text |-> inputText])
    /\ inputText' = ""
    /\ files' = 0
    /\ isLoading' = TRUE
    /\ polls' = 0
    /\ sendPc' = CASE mode = "CHAT" /\ files > 0 /\ inputText = "edit" -> "editImage"
                  [] mode = "CHAT" -> "generateChatResponse"
                  [] mode = "IMAGE_GEN" -> "generateImage"
                  [] mode = "VIDEO_GEN" /\ aistudio -> "hasSelectedApiKey"
                  [] OTHER -> "generateVideos"
    /\ issued' = IF mode = "VIDEO_GEN" /\ aistudio THEN issued ELSE issued + 1
    /\ UNCHANGED <<liveVars, chatMounted, mode, lastThrown>>

\* Lines 73-95: editImage, generateChatResponse or generateImage resolved;
\* the parts of the response are gathered into responseText.
generateContentResolved(responseText) ==
    /\ sendPc \in {"editImage", "generateChatResponse", "generateImage"}
    /\ Succeed(responseText)
    /\ UNCHANGED <<liveVars, chatMounted, mode, inputText, files, nSends, issued, polls>>

\* Any await of the try block (a request of lines 73-97, or inside
\* generateVeoVideo the key dialog, generateVideos, getVideosOperation,
\* fetch or res.blob()) rejects with an error whose message is m.
awaitRejected(m) ==
    /\ sendPc # "idle"
    /\ Throw(m)
    /\ UNCHANGED <<liveVars, chatMounted, mode, inputText, files, nSends, issued, polls>>

\* geminiService.ts lines 131-165: hasSelectedApiKey resolved; without a key
\* the dialog is opened, with one generateVideos is called.
hasSelectedApiKeyResolved(hasKey) ==
    /\ sendPc = "hasSelectedApiKey"
    /\ sendPc' = IF hasKey THEN "generateVideos" ELSE "openSelectKey"
    /\ issued' = IF hasKey THEN issued + 1 ELSE issued
    /\ UNCHANGED <<liveVars, chatMounted, mode, messages, inputText, files, isLoading,
                   nSends, polls, lastThrown>>

\* geminiService.ts lines 133-165: the key dialog returned; generateVideos is
\* called.
openSelectKeyResolved ==
    /\ sendPc = "openSelectKey"
    /\ sendPc' = "generateVideos"
    /\ issued' = issued + 1
    /\ UNCHANGED <<liveVars, chatMounted, mode, messages, inputText, files, isLoading,
                   nSends, polls, lastThrown>>

\* geminiService.ts lines 168-178 for an operation that is done or not:
\* poll again, throw for a missing uri, or fetch the bytes.
AfterOperation(done, hasUri) ==
    IF ~done
      THEN /\ polls < MaxPolls
           /\ polls' = polls + 1
           /\ sendPc' = "getVideosOperation"
           /\ UNCHANGED <<messages, isLoading, lastThrown>>
      ELSE IF ~hasUri
        THEN Throw("No video generated") /\ UNCHANGED polls
        ELSE /\ sendPc' = "fetch"
             /\ UNCHANGED <<messages, isLoading, lastThrown, polls>>

\* geminiService.ts lines 150-174: generateVideos resolved with an operation.
generateVideosResolved(done, hasUri) ==
    /\ sendPc = "generateVideos"
    /\ AfterOperation(done, hasUri)
    /\ UNCHANGED <<liveVars, chatMounted, mode, inputText, files, nSends, issued>>

\* geminiService.ts lines 169-174: the 5 s sleep and getVideosOperation
\* resolved with the operation's new state.
getVideosOperationResolved(done, hasUri) ==
    /\ sendPc = "getVideosOperation"
    /\ AfterOperation(done, hasUri)
    /\ UNCHANGED <<liveVars, chatMounted, mode, inputText, files, nSends, issued>>

\* geminiService.ts lines 177-179: fetch resolved with a response.
fetchResolved(ok) ==
    /\ sendPc = "fetch"
    /\ IF ok
         THEN /\ sendPc' = "blob"
              /\ UNCHANGED <<messages, isLoading, lastThrown>>
         ELSE Throw("Failed to download video bytes")
    /\ UNCHANGED <<liveVars, chatMounted, mode, inputText, files, nSends, issued, polls>>

\* geminiService.ts line 179 and lines 97-110: the bytes arrived.
blobResolved ==
    /\ sendPc = "blob"
    /\ Succeed("Here is your generated video using Veo 3.")
    /\ UNCHANGED <<liveVars, chatMounted, mode, inputText, files, nSends, issued, polls>>

Chat ==
    \/ \E t \in Texts : setInputText(t)
    \/ handleFileUpload
    \/ \E m \in ChatModes : setMode(m)
    \/ chatUnmount
    \/ \E aistudio \in BOOLEAN : handleSend(aistudio)
    \/ \E responseText \in Replies : generateContentResolved(responseText)
    \/ \E m \in ErrMessages : awaitRejected(m)
    \/ \E hasKey \in BOOLEAN : hasSelectedApiKeyResolved(hasKey)
    \/ openSelectKeyResolved
    \/ \E done, hasUri \in BOOLEAN : generateVideosResolved(done, hasUri)
    \/ \E done, hasUri \in BOOLEAN : getVideosOperationResolved(done, hasUri)
    \/ \E ok \in BOOLEAN : fetchResolved(ok)
    \/ blobResolved

Lifecycle(texts) ==
    \/ \E k \in Sessions : startSession(k)
    \/ \E k \in Sessions : getUserMediaResolved(k)
    \/ \E k \in Sessions : getUserMediaRejected(k)
    \/ stopSession
    \/ unmount
    \/ \E k \in Sessions : onopen(k)
    \/ \E k \in Sessions : onclose(k)
    \/ \E k \in Sessions, e \in texts : onerror(k, e)

Playback ==
    \/ \E k \in Sessions, len \in 0..MaxPayload, i \in BOOLEAN : onmessage(k, len, i)
    \/ \E p \in pending : decodeResolved(p)
    \/ \E src \in sourcesRef : onended(src)
    \/ clockAdvances

Capture ==
    \/ \E k \in Sessions, w \in Windows : onaudioprocess(k, w)
    \/ \E k \in Sessions : intervalFires(k)
    \/ \E k \in Sessions, hasBlob \in BOOLEAN : toBlobCallback(k, hasBlob)
    \/ \E k \in Sessions : onloadend(k)

\* LiveSession and ChatInterface share no state: a step of one leaves the
\* other's variables alone.
Next == Lifecycle(ErrorTexts) \/ Playback \/ Capture \/ Chat
Spec == Init /\ [][Next]_vars

\* The session controller alone, with every error text.
LifecycleNext == Lifecycle(ErrorTexts)
LifecycleSpec == Init /\ [][LifecycleNext]_vars

\* The session controller with the inbound side (playback scheduler).
PlaybackNext == Lifecycle({"socket closed"}) \/ Playback
PlaybackSpec == Init /\ [][PlaybackNext]_vars

\* The session controller with the outbound side (capture pipeline).
CaptureNext == Lifecycle({"socket closed"}) \/ Capture
CaptureSpec == Init /\ [][CaptureNext]_vars

\* ChatInterface alone.
ChatNext == Chat
ChatSpec == Init /\ [][ChatNext]_vars
\* ----------------------------------------------------------- properties
\* Invocation k has no callback left to run.
Quiescent(k) ==
    /\ pc[k] # "gum"
    /\ transport[k] \notin {"connecting", "closing", "failing"}
    /\ toBlobPending[k] = 0
    /\ readerPending[k] = 0
    /\ \A p \in pending : p.s # k

\* Nothing invocation k acquired is still held or running.
Released(k) ==
    /\ transport[k] \in {"none", "closed"}
    /\ pc[k] = "connected" => trackStops[k] >= 1
    /\ inCloseCalls[k] >= 1
    /\ outCloseCalls[k] >= 1
    /\ ~intervalActive[k]
    /\ procCtx[k] # NULL => inCloseCalls[procCtx[k]] >= 1

\* C1: every buffer given to source.start() starts no earlier than the end
\* of the buffer scheduled before it (no interruption and no new context in
\* between) and no earlier than ctx.currentTime at the moment of the call.
C1_SchedulingNonOverlap ==
    lastStarted.id # 0 =>
        /\ lastStarted.at >= lastStarted.prevEnd
        /\ lastStarted.at >= lastStarted.now

\* C2: no source is started for a message of an invocation on which
\* stopSession() has already been called.
C2_NoPlaybackAfterTeardown == ~lastStarted.afterStop

\* C3: once stopSession() has been called on an invocation and its pending
\* callbacks have run, its transport is closed, its tracks are stopped, its
\* audio contexts are closed and its interval is cancelled.
C3_GuaranteedTeardown ==
    \A k \in Sessions : stopped[k] /\ Quiescent(k) => Released(k)

\* C4: every release call (session.close, track.stop, AudioContext.close,
\* clearInterval) is issued at most once per acquired handle.
C4_ReleasedExactlyOnce ==
    \A k \in Sessions :
        /\ closeCalls[k] <= 1
        /\ trackStops[k] <= 1
        /\ inCloseCalls[k] <= 1
        /\ outCloseCalls[k] <= 1
        /\ clearCalls[k] <= 1

\* C5: session.sendRealtimeInput is never called for an invocation after
\* stopSession() has been called on it.
C5_NoSendAfterStop ==
    \A k \in Sessions : \A i \in 1..Len(sent[k]) : ~sent[k][i].afterStop

\* C6: when an onmessage invocation whose message carries the interrupted
\* flag runs to its end, every source that was in the active set, and the
\* source of that message's own audio, has been stopped, the set is empty
\* and nextStartTimeRef is 0.
C6_InterruptionClearsState ==
    [][(lastDone' # lastDone /\ lastDone'.interrupted) =>
          /\ sourcesRef' = {}
          /\ nextStartTimeRef' = 0
          /\ SourceIds(sourcesRef) \subseteq stoppedSources'
          /\ lastDone'.audio => lastDone'.id \in stoppedSources']_vars

C6_Witness ==
    /\ lastDone.interrupted
    /\ lastDone.audio
    /\ Cardinality(stoppedSources) >= 2
    /\ sourcesRef = {}
    /\ nextStartTimeRef = 0

\* The transport of k just delivered its open signal / its error signal.
Opened(k) == transport[k] = "connecting" /\ transport'[k] = "open"
Failed(k) == transport[k] # "failing" /\ transport'[k] = "failing"

\* C7 as stated: the open signal sets isConnected, and an error signal
\* clears it and leaves in error the text the transport reported.
C7_ErrorTextPreserved ==
    [][\A k \in Sessions :
          /\ (mounted /\ Opened(k)) => isConnected'
          /\ (mounted /\ Failed(k)) =>
                (~isConnected' /\ error' = lastTransportError')]_vars

\* C7 as amended: the open signal sets isConnected, and an error signal
\* clears it and sets error to the fixed text "Connection error.",
\* whatever the transport reported.
C7_ErrorStateReached ==
    [][\A k \in Sessions :
          /\ (mounted /\ Opened(k)) => isConnected'
          /\ (mounted /\ Failed(k)) =>
                (~isConnected' /\ error' = ConnectionError)]_vars

C7_Witness ==
    /\ mounted
    /\ \E k \in Sessions : transport[k] = "failing" /\ resolved[k]
    /\ lastTransportError = "quota exceeded"
    /\ error = ConnectionError
    /\ ~isConnected

\* C8: once onclose or onerror has run for an invocation, everything it
\* acquired is released and its capture no longer runs.
C8_ClosedReleasesResources ==
    \A k \in Sessions : ended[k] => Released(k)

\* C9: sources are started in the order their messages were delivered to
\* onmessage.
C9_ArrivalOrder ==
    lastStarted.id # 0 => lastStarted.id > lastStarted.prevId

AudioChunks(log) == [k \in Sessions |-> SelectSeq(log[k], LAMBDA c : c.kind = "audio")]

\* C10: every window the capture device emits appends exactly one chunk, the
\* encoding of that window, to the calls of sendRealtimeInput of its
\* invocation, and while connected it redraws every bar once from 500 times
\* the window's mean absolute amplitude plus the bar's random part; nothing
\* else sends an audio chunk or redraws the bars.
C10_OutboundAudioOrdering ==
    [][IF lastWindow' # lastWindow
         THEN LET k == lastWindow'.s
                  w == lastWindow'.data
              IN  /\ sent' = [sent EXCEPT ![k] =
                                Append(@, [kind |-> "audio", media |-> createBlob(w),
                                           afterStop |-> stopped[k]])]
                  /\ isConnected =>
                        /\ vizUpdates' = vizUpdates + 1
                        /\ \A i \in 1..NumBars :
                              visualizerData'[i] - (SumAbs(w) * 250) \div Len(w)
                                  \in 0..MaxJitter
         ELSE /\ AudioChunks(sent') = AudioChunks(sent)
              /\ vizUpdates' = vizUpdates
              /\ visualizerData' = visualizerData]_vars

C10_Witness ==
    /\ isConnected
    /\ nWindows = 2
    /\ vizUpdates = 2
    /\ \E k \in Sessions :
          /\ Len(sent[k]) = 2
          /\ sent[k][1].kind = "audio" /\ sent[k][2].kind = "audio"
          /\ sent[k][1].media = createBlob(<<3, -1>>)
          /\ sent[k][2].media = createBlob(<<2, -2>>)
    /\ visualizerData[1] = 500

\* C11: an invocation whose getUserMedia was rejected never opens a
\* transport, never installs the capture callback or the video interval,
\* and the two audio contexts it created before the rejection are closed.
C11_AcquisitionFailureReleases ==
    \A k \in Sessions :
        pc[k] = "failed" =>
            /\ transport[k] = "none"
            /\ procCtx[k] = NULL
            /\ ~intervalActive[k]
            /\ inCloseCalls[k] >= 1
            /\ outCloseCalls[k] >= 1

\* Invocations whose transport, media stream, audio contexts or interval
\* are live (acquired and not released).
LiveTransports == {k \in Sessions : transport[k] \in {"connecting", "open"}}
LiveStreams == {k \in Sessions : pc[k] = "connected" /\ trackStops[k] = 0}
LiveContexts ==
    {k \in Sessions : pc[k] # "none" /\ (inCloseCalls[k] = 0 \/ outCloseCalls[k] = 0)}
LiveTimers == {k \in Sessions : intervalActive[k]}

\* C13: at most one transport, one media stream, one pair of audio contexts
\* and one video interval are live at any time.
C13_OneLiveSession ==
    /\ Cardinality(LiveTransports) <= 1
    /\ Cardinality(LiveStreams) <= 1
    /\ Cardinality(LiveContexts) <= 1
    /\ Cardinality(LiveTimers) <= 1

\* Every invocation started so far has been stopped: no startSession() has
\* been called since the last stopSession().
AllStopped == \A j \in Sessions : pc[j] # "none" => stopped[j]

\* C17: an open signal delivered after stopSession(), with no startSession()
\* in between, does not set isConnected and installs neither the capture
\* callback nor the video interval.
C17_StopIsFinal ==
    [][\A k \in Sessions :
          (AllStopped /\ Opened(k)) =>
              /\ ~isConnected'
              /\ procCtx'[k] = NULL
              /\ ~intervalActive'[k]]_vars

\* An inbound message was dropped at the decode: it was delivered, and its
\* handler neither suspended at the await nor ran to its end.
Dropped == nMsgs' # nMsgs /\ pending' = pending /\ lastDone' = lastDone

\* C14: a message whose payload fails to decode starts no source and leaves
\* isConnected, error, the active source set and nextStartTimeRef as they
\* were.
C14_MalformedPayloadDropped ==
    [][Dropped =>
          /\ lastStarted' = lastStarted
          /\ isConnected' = isConnected
          /\ error' = error
          /\ sourcesRef' = sourcesRef
          /\ nextStartTimeRef' = nextStartTimeRef]_vars

\* C18: once the handler of a message carrying the interrupted flag has run
\* to its end, no source is started for a message that arrived before it.
C18_InterruptionFlushesEarlierAudio ==
    [][(lastDone.interrupted /\ lastStarted'.id # lastStarted.id) =>
          lastStarted'.id > lastDone.id]_vars

RECURSIVE SumTo(_, _)
SumTo(f, k) == IF k = 0 THEN 0 ELSE f[k] + SumTo(f, k - 1)

\* The sum of a count over all invocations; the calls in a log.
Total(f) == SumTo(f, MaxStarts)
Calls(log) == Total([k \in Sessions |-> Len(log[k])])

VideoFrames(log) == [k \in Sessions |-> SelectSeq(log[k], LAMBDA c : c.kind = "video")]

\* C12: getUserMedia is called only by the step that begins an invocation,
\* which is a click on the Start button (rendered while mounted and not
\* connected) and no transport signal; ai.live.connect is called only by
\* the continuation of an invocation awaiting getUserMedia; a transport that
\* failed or closed never connects again and an invocation that failed or
\* connected never returns to getUserMedia.  Every call of sendRealtimeInput
\* belongs to a new capture window or a frame just read, so nothing is sent
\* twice: at most one call per window and per interval tick.
C12_NoAutomaticRetry ==
    [][/\ \A k \in Sessions :
             /\ (pc'[k] = "gum" /\ pc[k] # "gum") =>
                    /\ pc[k] = "none"
                    /\ mounted /\ ~isConnected
                    /\ transport' = transport
                    /\ ended' = ended
                    /\ \A j \in Sessions \ {k} : pc'[j] = pc[j]
             /\ (transport'[k] = "connecting" /\ transport[k] # "connecting") =>
                    /\ transport[k] = "none"
                    /\ pc[k] = "gum"
                    /\ ended' = ended
             /\ pc[k] \in {"failed", "connected"} => pc'[k] = pc[k]
       /\ sent' # sent =>
             \/ lastWindow' # lastWindow
             \/ \E k \in Sessions : readerPending'[k] < readerPending[k]
       /\ Calls(sent') <= nWindows' + nFrames']_vars

C12_Witness ==
    /\ \E k \in Sessions : pc[k] = "failed"
    /\ \E k \in Sessions :
          /\ ended[k]
          /\ transport[k] = "closed"
          /\ lastTransportError # NoTransportError
          /\ Len(sent[k]) >= 1

\* C15: whatever sends for invocation k (the capture callback, the video
\* interval, a frame in flight) exists only once k's open signal has been
\* handled, and so does every call of sendRealtimeInput; the frames sent or
\* in flight never outnumber the interval ticks.
C15_OutboundOnlyAfterOpen ==
    /\ \A k \in Sessions :
          (\/ Len(sent[k]) > 0
           \/ procCtx[k] # NULL
           \/ intervalActive[k]
           \/ toBlobPending[k] > 0
           \/ readerPending[k] > 0) => resolved[k]
    /\ Calls(VideoFrames(sent)) + Total(toBlobPending) + Total(readerPending) <= nFrames

C15_Witness ==
    \E k \in Sessions :
        /\ resolved[k]
        /\ nFrames = 1
        /\ \E i, j \in 1..Len(sent[k]) :
              sent[k][i].kind = "audio" /\ sent[k][j].kind = "video"

\* C16: when an await of an accepted handleSend() rejects or generateVeoVideo
\* throws, and the component is still mounted, that step appends exactly one
\* model message right after the user's message, whose text is "Error: "
\* followed by the error's message (or by "Something went wrong." for an
\* empty one), sets isLoading to false, ends the invocation and issues no
\* request; nothing is appended afterwards until the next handleSend(), and
\* no more generation requests are ever issued than handleSend() calls were
\* accepted.
C16_FailureSurfacedOnce ==
    [][/\ (lastThrown' # lastThrown /\ chatMounted) =>
             /\ messages[Len(messages)].role = "user"
             /\ messages' =
                   Append(messages,
                          [role |-> "model",
                           text |-> IF lastThrown'.message = ""
                                      THEN "Error: Something went wrong."
                                      ELSE "Error: " \o lastThrown'.message])
             /\ isLoading /\ ~isLoading'
             /\ sendPc' = "idle"
             /\ issued' = issued
       /\ (sendPc = "idle" /\ messages' # messages) => nSends' = nSends + 1
       /\ issued' <= nSends']_vars

C16_Witness ==
    /\ chatMounted
    /\ ~isLoading
    /\ nSends = 2
    /\ issued = 2
    /\ Len(messages) = 5
    /\ messages[2].role = "user"
    /\ messages[3] = [role |-> "model", text |-> "Error: No video generated"]
    /\ messages[4].role = "user"
    /\ messages[5] = [role |-> "model", text |-> "Error: Failed to download video bytes"]
====
